---- MODULE Spec2Model ----
(***************************************************************************)
(* tool4word: two command-line transformers of word-processing documents.  *)
(*   docx-table-title.py  recolours the header row of every table         *)
(*   top-page.py          copies headers, rebuilds footers and replaces    *)
(*                        the cover page from a template                   *)
(* A document is modelled as the XML tree the scripts walk: every element  *)
(* is a record [tag, attrs, text, kids]; attrs is a sequence of            *)
(* <<name, value>> pairs, text a sequence of characters, kids the ordered  *)
(* child list.  The library calls the scripts make (find, findall, remove, *)
(* append, insert, iter, set) are operators on these trees.                *)
(***************************************************************************)
EXTENDS Integers, Sequences, FiniteSets, TLC

VARIABLES
    \* ---- docx-table-title.py: one invocation of main() after another
    rpc,            \* position inside main()
    has_arg,        \* len(sys.argv) >= 2
    input_exists,   \* os.path.exists(input_file)
    input_file,     \* the document stored in the input file (a body tree)
    doc,            \* the document object held by main(), <<>> before the load
    output_file,    \* what changed/<name> holds, <<>> while nothing was written
    exit_code,      \* the exit status of the run, -1 while it is running
    did_load, did_process, did_save,   \* which steps of this run completed
    raised,         \* the exception a step of this run raised, "" when none
    run,            \* number of the invocation
    \* ---- top-page.py: one DocxFormatter and its format() calls
    pc,             \* position inside format(), "idle" between calls
    heap,           \* the element objects, by identity: heap[id] is the tree of id
    template_file,  \* the document stored in the template file
    template_doc,   \* self.template_doc: [parts, body], each a list of element ids
    variables,      \* self.variables: <<name, value>> pairs in dict order
    source_files,   \* the documents stored in the source files
    source,         \* index of the source file of the running format() call
    target_doc,     \* self.target_doc: [parts, body], <<>> before the first load
    outputs         \* what the format() calls saved, oldest first

rvars == <<rpc, has_arg, input_exists, input_file, doc, output_file, exit_code,
           did_load, did_process, did_save, raised, run>>

avars == <<pc, heap, template_file, template_doc, variables, source_files, source,
           target_doc, outputs>>

vars == <<rvars, avars>>

\* top-page.py is not running
ApplierUnused ==
    /\ pc = "unused"
    /\ heap = <<>>
    /\ template_file = <<>>
    /\ template_doc = <<>>
    /\ variables = <<>>
    /\ source_files = <<>>
    /\ source = 0
    /\ target_doc = <<>>
    /\ outputs = <<>>

\* docx-table-title.py is not running
RecolorUnused ==
    /\ rpc = "unused"
    /\ has_arg = FALSE
    /\ input_exists = FALSE
    /\ input_file = <<>>
    /\ doc = <<>>
    /\ output_file = <<>>
    /\ exit_code = -1
    /\ did_load = FALSE
    /\ did_process = FALSE
    /\ did_save = FALSE
    /\ raised = ""
    /\ run = 0

(***************************************************************************)
(* Bounds of the model.                                                    *)
(***************************************************************************)
MaxTables == 2
MaxRows == 2
MaxInvocations == 2
MaxFormats == 2
MaxFrags == 2
MaxBody == 2
MaxTemplateSections == 2
MaxTargetSections == 3

(***************************************************************************)
(* XML trees.                                                              *)
(***************************************************************************)
E(tag, attrs, text, kids) == [tag |-> tag, attrs |-> attrs, text |-> text, kids |-> kids]

Leaf(tag) == E(tag, <<>>, <<>>, <<>>)

\* the element of a one-element set.  The({F(x) : x \in {e}}) is F(e) with e
\* worked out once, where F uses it several times.
The(S) == CHOOSE x \in S : TRUE

\* element.get(name): the value of the attribute, "" when it is not set
Get(e, name) ==
    IF \E i \in DOMAIN e.attrs : e.attrs[i][1] = name
    THEN e.attrs[CHOOSE i \in DOMAIN e.attrs : e.attrs[i][1] = name][2]
    ELSE ""

\* element.set(name, value)
Set(e, name, value) ==
    IF \E i \in DOMAIN e.attrs : e.attrs[i][1] = name
    THEN [e EXCEPT !.attrs = [i \in DOMAIN e.attrs |->
              IF e.attrs[i][1] = name THEN <<name, value>> ELSE e.attrs[i]]]
    ELSE [e EXCEPT !.attrs = Append(@, <<name, value>>)]

HasChild(e, tag) == \E i \in DOMAIN e.kids : e.kids[i].tag = tag

\* index of the child element.find(tag) returns (the first one)
FindIdx(e, tag) ==
    CHOOSE i \in DOMAIN e.kids :
        e.kids[i].tag = tag /\ \A j \in 1..(i - 1) : e.kids[j].tag # tag

\* element.findall(tag): the direct children with that tag, in order
FindAll(e, tag) == SelectSeq(e.kids, LAMBDA k : k.tag = tag)

\* for c in element.findall(tag): element.remove(c)
RemoveAll(e, tag) == [e EXCEPT !.kids = SelectSeq(@, LAMBDA k : k.tag # tag)]

AppendKid(e, k) == [e EXCEPT !.kids = Append(@, k)]

InsertKid(e, pos, k) ==
    [e EXCEPT !.kids = SubSeq(@, 1, pos) \o <<k>> \o SubSeq(@, pos + 1, Len(@))]

\* get_or_add_tcPr / get_or_add_rPr / get_or_add_pPr: the properties child is
\* the first child of its parent, and is created there when missing
GetOrAdd(e, tag) == IF HasChild(e, tag) THEN e ELSE InsertKid(e, 0, Leaf(tag))

(***************************************************************************)
(* docx-table-title.py                                                     *)
(***************************************************************************)
header_bg_color == "1F4E79"
text_color == "FFFFFF"

ShdElement(color) ==
    E("shd", << <<"val", "clear">>, <<"color", "auto">>, <<"fill", color>> >>, <<>>, <<>>)

ColorElement(color) == E("color", << <<"val", color>> >>, <<>>, <<>>)

\* a faulty variant: the old shading elements are kept
set_cell_shading_keep(tc, color) ==
    LET tc1 == GetOrAdd(tc, "tcPr")
        i == FindIdx(tc1, "tcPr")
    IN  [tc1 EXCEPT !.kids[i] = AppendKid(@, ShdElement(color))]

set_cell_shading(tc, color) ==
    LET tc1 == GetOrAdd(tc, "tcPr")
        i == FindIdx(tc1, "tcPr")
    IN  [tc1 EXCEPT !.kids[i] = AppendKid(RemoveAll(@, "shd"), ShdElement(color))]

set_run_color(r, color) ==
    LET r1 == GetOrAdd(r, "rPr")
        i == FindIdx(r1, "rPr")
    IN  [r1 EXCEPT !.kids[i] = AppendKid(RemoveAll(@, "color"), ColorElement(color))]

set_paragraph_run_color(p, color) ==
    LET p1 == [p EXCEPT !.kids = [i \in DOMAIN p.kids |->
                  IF p.kids[i].tag = "r" THEN set_run_color(p.kids[i], color)
                  ELSE p.kids[i]]]
        p2 == GetOrAdd(p1, "pPr")
        i == FindIdx(p2, "pPr")
        pPr == p2.kids[i]
        pPr1 == IF HasChild(pPr, "rPr") THEN pPr ELSE AppendKid(pPr, Leaf("rPr"))
        j == FindIdx(pPr1, "rPr")
        pPr2 == [pPr1 EXCEPT !.kids[j] =
                    AppendKid(RemoveAll(@, "color"), ColorElement(color))]
    IN  [p2 EXCEPT !.kids[i] = pPr2]

\* the body of the loop over header_row.cells
ProcessHeaderCell(tc, bg, fg) ==
    LET tc1 == set_cell_shading(tc, bg)
    IN  [tc1 EXCEPT !.kids = [i \in DOMAIN tc1.kids |->
            IF tc1.kids[i].tag = "p" THEN set_paragraph_run_color(tc1.kids[i], fg)
            ELSE tc1.kids[i]]]

\* a faulty variant: every row is treated as a header row
ProcessTable_all_rows(tbl, bg, fg) ==
    [tbl EXCEPT !.kids = [i \in DOMAIN tbl.kids |->
        IF tbl.kids[i].tag = "tr"
        THEN [tbl.kids[i] EXCEPT !.kids = [c \in DOMAIN tbl.kids[i].kids |->
                 IF tbl.kids[i].kids[c].tag = "tc"
                 THEN ProcessHeaderCell(tbl.kids[i].kids[c], bg, fg)
                 ELSE tbl.kids[i].kids[c]]]
        ELSE tbl.kids[i]]]

\* the body of the loop over doc.tables
ProcessTable(tbl, bg, fg) ==
    IF Len(FindAll(tbl, "tr")) > 0
    THEN LET h == FindIdx(tbl, "tr")
         IN  [tbl EXCEPT !.kids[h].kids = [c \in DOMAIN tbl.kids[h].kids |->
                 IF tbl.kids[h].kids[c].tag = "tc"
                 THEN ProcessHeaderCell(tbl.kids[h].kids[c], bg, fg)
                 ELSE tbl.kids[h].kids[c]]]
    ELSE tbl

process_table_headers(body, bg, fg) ==
    [body EXCEPT !.kids = [i \in DOMAIN body.kids |->
        IF body.kids[i].tag = "tbl" THEN ProcessTable(body.kids[i], bg, fg)
        ELSE body.kids[i]]]

(***************************************************************************)
(* Input documents of the recolourer.                                      *)
(***************************************************************************)
RunPlain == E("r", <<>>, <<>>, <<E("t", <<>>, <<"a">>, <<>>)>>)

RunColoured ==
    E("r", <<>>, <<>>,
      <<E("rPr", <<>>, <<>>, <<ColorElement("FF0000"), Leaf("b")>>),
        E("t", <<>>, <<"b">>, <<>>)>>)

ParaEmpty == Leaf("p")

ParaRuns ==
    E("p", <<>>, <<>>,
      <<E("pPr", <<>>, <<>>,
          <<E("rPr", <<>>, <<>>, <<ColorElement("00FF00"), Leaf("i")>>), Leaf("jc")>>),
        RunColoured, RunPlain>>)

CellBare == E("tc", <<>>, <<>>, <<ParaEmpty>>)

CellShaded ==
    E("tc", <<>>, <<>>,
      <<E("tcPr", <<>>, <<>>, <<ShdElement("FFFF00"), Leaf("tcW"), ShdElement("EEEEEE")>>),
        ParaRuns, ParaEmpty>>)

RowPool ==
    { E("tr", <<>>, <<>>, <<CellShaded, CellBare>>),
      E("tr", <<>>, <<>>, <<CellBare>>) }

SeqsUpTo(S, n) == UNION {[1..k -> S] : k \in 0..n}

TablePool == { E("tbl", <<>>, <<>>, <<Leaf("tblPr")>> \o rows) : rows \in SeqsUpTo(RowPool, MaxRows) }

\* a body: a paragraph, the tables, the section properties
RecolorDocs ==
    { E("body", <<>>, <<>>, <<ParaRuns>> \o tbls \o <<Leaf("sectPr")>>) :
        tbls \in SeqsUpTo(TablePool, MaxTables) }

NoDoc == <<>>

(***************************************************************************)
(* main() of docx-table-title.py                                           *)
(***************************************************************************)
InitRecolor ==
    /\ rpc = "main"
    /\ has_arg \in BOOLEAN
    /\ input_exists \in BOOLEAN
    /\ input_file \in RecolorDocs
    /\ doc = NoDoc
    /\ output_file = NoDoc
    /\ exit_code = -1
    /\ did_load = FALSE
    /\ did_process = FALSE
    /\ did_save = FALSE
    /\ raised = ""
    /\ run = 1
    /\ ApplierUnused

Exit(code) ==
    /\ rpc' = "exit"
    /\ exit_code' = code

\* if len(sys.argv) < 2: usage, sys.exit(1)
Usage ==
    /\ rpc = "main"
    /\ ~has_arg
    /\ Exit(1)
    /\ UNCHANGED avars
    /\ UNCHANGED <<has_arg, input_exists, input_file, doc, output_file,
                   did_load, did_process, did_save, raised, run>>

\* if not os.path.exists(input_file): sys.exit(1)
CheckInput ==
    /\ rpc = "main"
    /\ has_arg
    /\ IF input_exists
       THEN rpc' = "makedirs" /\ UNCHANGED exit_code
       ELSE Exit(1)
    /\ UNCHANGED avars
    /\ UNCHANGED <<has_arg, input_exists, input_file, doc, output_file,
                   did_load, did_process, did_save, raised, run>>

Outcomes == {"ok", "PermissionError", "Exception"}

\* os.makedirs(output_dir, exist_ok=True), outside the try block: an exception
\* here is not caught, and the interpreter ends with status 1
MakeDirs ==
    /\ rpc = "makedirs"
    /\ \E o \in Outcomes :
        IF o = "ok"
        THEN rpc' = "load" /\ UNCHANGED <<exit_code, raised>>
        ELSE Exit(1) /\ raised' = o
    /\ UNCHANGED avars
    /\ UNCHANGED <<has_arg, input_exists, input_file, doc, output_file,
                   did_load, did_process, did_save, run>>

\* doc = Document(input_file)
Load ==
    /\ rpc = "load"
    /\ \E o \in Outcomes :
        IF o = "ok"
        THEN /\ rpc' = "process"
             /\ doc' = input_file
             /\ did_load' = TRUE
             /\ UNCHANGED raised
        ELSE /\ rpc' = "except"
             /\ raised' = o
             /\ UNCHANGED <<doc, did_load>>
    /\ UNCHANGED avars
    /\ UNCHANGED <<has_arg, input_exists, input_file, output_file, exit_code,
                   did_process, did_save, run>>

\* process_table_headers(doc, header_bg_color, text_color)
Process ==
    /\ rpc = "process"
    /\ doc' = process_table_headers(doc, header_bg_color, text_color)
    /\ did_process' = TRUE
    /\ rpc' = "save"
    /\ UNCHANGED avars
    /\ UNCHANGED <<has_arg, input_exists, input_file, output_file, exit_code,
                   did_load, did_save, raised, run>>

\* doc.save(output_file)
Save ==
    /\ rpc = "save"
    /\ \E o \in Outcomes :
        IF o = "ok"
        THEN /\ rpc' = "return"
             /\ output_file' = doc
             /\ did_save' = TRUE
             /\ UNCHANGED raised
        ELSE /\ rpc' = "except"
             /\ raised' = o
             /\ UNCHANGED <<output_file, did_save>>
    /\ UNCHANGED avars
    /\ UNCHANGED <<has_arg, input_exists, input_file, doc, exit_code,
                   did_load, did_process, run>>

\* a faulty variant: the handler reports and falls through
Except_no_exit ==
    /\ rpc = "except"
    /\ Exit(0)
    /\ UNCHANGED avars
    /\ UNCHANGED <<has_arg, input_exists, input_file, doc, output_file,
                   did_load, did_process, did_save, raised, run>>

\* except PermissionError / except Exception: report, sys.exit(1)
Except ==
    /\ rpc = "except"
    /\ Exit(1)
    /\ UNCHANGED avars
    /\ UNCHANGED <<has_arg, input_exists, input_file, doc, output_file,
                   did_load, did_process, did_save, raised, run>>

\* main() returns: the interpreter ends with status 0
Return ==
    /\ rpc = "return"
    /\ Exit(0)
    /\ UNCHANGED avars
    /\ UNCHANGED <<has_arg, input_exists, input_file, doc, output_file,
                   did_load, did_process, did_save, raised, run>>

\* the tool is run again, on the file it wrote
RunOnOutput ==
    /\ rpc = "exit"
    /\ exit_code = 0
    /\ run < MaxInvocations
    /\ rpc' = "main"
    /\ input_file' = output_file
    /\ input_exists' = TRUE
    /\ doc' = NoDoc
    /\ exit_code' = -1
    /\ did_load' = FALSE
    /\ did_process' = FALSE
    /\ did_save' = FALSE
    /\ raised' = ""
    /\ run' = run + 1
    /\ UNCHANGED avars
    /\ UNCHANGED <<has_arg, output_file>>

NextRecolor ==
    \/ Usage
    \/ CheckInput
    \/ MakeDirs
    \/ Load
    \/ Process
    \/ Save
    \/ Except
    \/ Return
    \/ RunOnOutput

SpecRecolor == InitRecolor /\ [][NextRecolor]_vars

(***************************************************************************)
(* Properties of docx-table-title.py                                       *)
(***************************************************************************)
Rows(tbl) == FindAll(tbl, "tr")

\* the cell has exactly one shading element, with the given fill
CellFilled(tc, color) ==
    /\ HasChild(tc, "tcPr")
    /\ LET shds == FindAll(tc.kids[FindIdx(tc, "tcPr")], "shd")
       IN  Len(shds) = 1 /\ Get(shds[1], "fill") = color

\* the properties element holds exactly one colour element, with the given value
Coloured(rPr, color) ==
    LET cs == FindAll(rPr, "color")
    IN  Len(cs) = 1 /\ Get(cs[1], "val") = color

RunColouredAs(r, color) ==
    HasChild(r, "rPr") /\ Coloured(r.kids[FindIdx(r, "rPr")], color)

ParaDefaultColouredAs(p, color) ==
    /\ HasChild(p, "pPr")
    /\ LET pPr == p.kids[FindIdx(p, "pPr")]
       IN  HasChild(pPr, "rPr") /\ Coloured(pPr.kids[FindIdx(pPr, "rPr")], color)

HeaderRowRecoloured(tr) ==
    \A c \in DOMAIN tr.kids :
        tr.kids[c].tag = "tc" =>
            /\ CellFilled(tr.kids[c], header_bg_color)
            /\ \A k \in DOMAIN tr.kids[c].kids :
                 LET p == tr.kids[c].kids[k]
                 IN  p.tag = "p" =>
                       /\ ParaDefaultColouredAs(p, text_color)
                       /\ \A x \in DOMAIN p.kids :
                            p.kids[x].tag = "r" => RunColouredAs(p.kids[x], text_color)

\* C1: after process_table_headers, in every table with at least one row each
\* cell of row 0 is filled with the header colour and every run and paragraph
\* default of row 0 has the text colour; every other row, every table without
\* rows and everything outside the tables is as it was loaded.
C1_HeaderRowsRecoloured ==
    did_process =>
        /\ Len(doc.kids) = Len(input_file.kids)
        /\ \A i \in DOMAIN doc.kids :
            LET t == doc.kids[i]
                t0 == input_file.kids[i]
            IN  IF t0.tag = "tbl" /\ Len(Rows(t0)) > 0
                THEN /\ t.tag = "tbl"
                     /\ Len(t.kids) = Len(t0.kids)
                     /\ HeaderRowRecoloured(t.kids[FindIdx(t0, "tr")])
                     /\ \A k \in DOMAIN t.kids :
                          k # FindIdx(t0, "tr") => t.kids[k] = t0.kids[k]
                ELSE t = t0

C1_Witness ==
    /\ did_process
    /\ run = 1
    /\ \E i \in DOMAIN doc.kids :
        /\ doc.kids[i].tag = "tbl"
        /\ Len(Rows(doc.kids[i])) >= 2
        /\ doc.kids[i] # input_file.kids[i]
    /\ \E i \in DOMAIN doc.kids :
        doc.kids[i].tag = "tbl" /\ Len(Rows(doc.kids[i])) = 0

\* C6: a second application of the recolourer, to the file the first one wrote,
\* changes nothing: the document is the one that was loaded, element for element.
C6_RecolourTwiceIsOnce ==
    (run > 1 /\ did_process) => doc = input_file

C6_Witness ==
    /\ run > 1
    /\ did_process
    /\ \E i \in DOMAIN doc.kids :
        doc.kids[i].tag = "tbl" /\ Len(Rows(doc.kids[i])) >= 1

Contains(s, sub) ==
    \E i \in 1..(Len(s) - Len(sub) + 1) : SubSeq(s, i, i + Len(sub) - 1) = sub

\* s.replace(old, new): every non-overlapping occurrence, from the left
RECURSIVE ReplaceFrom(_, _, _, _)
ReplaceFrom(s, old, new, i) ==
    IF i + Len(old) - 1 > Len(s) THEN SubSeq(s, i, Len(s))
    ELSE IF SubSeq(s, i, i + Len(old) - 1) = old
         THEN new \o ReplaceFrom(s, old, new, i + Len(old))
         ELSE <<s[i]>> \o ReplaceFrom(s, old, new, i + 1)

Replace(s, old, new) == The({ReplaceFrom(t, old, new, 1) : t \in {s}})

\* f'${var}'
Token(name) == <<"$">> \o name

\* element.iter(tag): the paths, in document order, of the element itself and of
\* its descendants that carry the tag; a path is the sequence of child indices
RECURSIVE Iter(_, _)
RECURSIVE IterKids(_, _, _)
Iter(e, tag) ==
    (IF e.tag = tag THEN << <<>> >> ELSE <<>>) \o IterKids(e, tag, 1)
IterKids(e, tag, i) ==
    IF i > Len(e.kids) THEN <<>>
    ELSE The({[k \in DOMAIN sub |-> <<i>> \o sub[k]] : sub \in {Iter(e.kids[i], tag)}})
         \o IterKids(e, tag, i + 1)

\* the element a path leads to
RECURSIVE At(_, _)
At(e, path) == IF path = <<>> THEN e ELSE At(e.kids[path[1]], Tail(path))

\* the tree with the element at the path replaced
RECURSIVE ReplaceAt(_, _, _)
ReplaceAt(e, path, new) ==
    IF path = <<>> THEN new
    ELSE [e EXCEPT !.kids[path[1]] = ReplaceAt(@, Tail(path), new)]

\* for run in runs: for t in run.iter('w:t'): if t.text: text_elements.append(t)
RECURSIVE TextElements(_, _, _)
TextElements(para, runs, i) ==
    IF i > Len(runs) THEN <<>>
    ELSE LET ts == Iter(At(para, runs[i]), "t")
             full == [k \in DOMAIN ts |-> runs[i] \o ts[k]]
         IN  SelectSeq(full, LAMBDA tp : At(para, tp).text # <<>>)
             \o TextElements(para, runs, i + 1)

\* the texts of the text elements, joined
RECURSIVE JoinTexts(_, _, _)
JoinTexts(para, tpaths, i) ==
    IF i > Len(tpaths) THEN <<>>
    ELSE At(para, tpaths[i]).text \o JoinTexts(para, tpaths, i + 1)

FullText(para) ==
    The({JoinTexts(para, tes, 1) : tes \in {TextElements(para, Iter(para, "r"), 1)}})

\* any(f'${var}' in full_text for var in self.variables.keys())
HasVariable(text, vs) == \E k \in DOMAIN vs : Contains(text, Token(vs[k][1]))

\* for var_name, var_value in self.variables.items(): new_text = new_text.replace(...)
RECURSIVE ReplaceVariables(_, _, _)
ReplaceVariables(text, vs, k) ==
    IF k > Len(vs) THEN text
    ELSE The({ReplaceVariables(new_text, vs, k + 1) :
                new_text \in {Replace(text, Token(vs[k][1]), vs[k][2])}})

\* for t in text_elements[1:]: t.text = ''
RECURSIVE BlankTexts(_, _, _)
BlankTexts(para, tpaths, i) ==
    IF i > Len(tpaths) THEN para
    ELSE The({BlankTexts(p1, tpaths, i + 1) :
                p1 \in {ReplaceAt(para, tpaths[i],
                                  [At(para, tpaths[i]) EXCEPT !.text = <<>>])}})

\* a faulty variant: the other text elements keep their text
CollapseInto_keep_rest(para, tes, new_text) ==
    ReplaceAt(para, tes[1],
              Set([At(para, tes[1]) EXCEPT !.text = new_text], "xml:space", "preserve"))

\* text_elements[0].text = new_text; the others are blanked
CollapseInto(para, tes, new_text) ==
    The({BlankTexts(first, tes, 2) :
           first \in {ReplaceAt(para, tes[1],
                         Set([At(para, tes[1]) EXCEPT !.text = new_text],
                             "xml:space", "preserve"))}})

\* a faulty variant: only the first configured variable is substituted
SubstituteText_first_only(text, vs) == Replace(text, Token(vs[1][1]), vs[1][2])

SubstituteText(text, vs) == ReplaceVariables(text, vs, 1)

\* the body of the loop of _replace_variables_in_element, for one paragraph
CollapseIfVariable(para, runs, tes, full_text, vs) ==
    IF runs = <<>> THEN para
    ELSE IF ~HasVariable(full_text, vs) THEN para
    ELSE IF tes # <<>> THEN CollapseInto(para, tes, SubstituteText(full_text, vs))
    ELSE para

ReplaceVariablesInPara(para, vs) ==
    The({ The({ The({ CollapseIfVariable(para, runs, tes, full_text, vs) :
                        full_text \in {JoinTexts(para, tes, 1)} }) :
                  tes \in {TextElements(para, runs, 1)} }) :
            runs \in {Iter(para, "r")} })

RECURSIVE ReplaceVariablesLoop(_, _, _, _)
ReplaceVariablesLoop(e, paras, i, vs) ==
    IF i > Len(paras) THEN e
    ELSE The({ReplaceVariablesLoop(e1, paras, i + 1, vs) :
                e1 \in {ReplaceAt(e, paras[i],
                                  The({ReplaceVariablesInPara(para, vs) :
                                         para \in {At(e, paras[i])}}))}})

\* _replace_variables_in_element(element)
replace_variables_in_element(e, vs) ==
    The({ The({ReplaceVariablesLoop(e0, paras, 1, vs) : paras \in {Iter(e0, "p")}}) :
            e0 \in {e} })

\* the label before which the tab is removed; the characters h, b, m stand for
\* the three characters of the label in the source
HanbaiMei == <<"h", "b", "m">>

\* for tab in list(run.iter('w:tab')): tab.getparent().remove(tab)
RECURSIVE RemoveTabs(_)
RemoveTabs(e) ==
    [e EXCEPT !.kids =
        The({[i \in DOMAIN kept |-> RemoveTabs(kept[i])] :
               kept \in {SelectSeq(@, LAMBDA k : k.tag # "tab")}})]

RunHasHanbaiMei(r) ==
    \E ts \in {Iter(r, "t")} :
        \E k \in DOMAIN ts :
            \E t \in {At(r, ts[k])} : t.text # <<>> /\ Contains(t.text, HanbaiMei)

\* for i, run in enumerate(runs): ...
RECURSIVE RemoveTabRuns(_, _, _)
RemoveTabRuns(para, runs, i) ==
    IF i > Len(runs) THEN para
    ELSE IF \E r \in {At(para, runs[i])} : RunHasHanbaiMei(r)
         THEN The({ The({RemoveTabRuns(p2, runs, i + 1) :
                           p2 \in {IF i > 1
                                   THEN ReplaceAt(p1, runs[i - 1],
                                                  RemoveTabs(At(p1, runs[i - 1])))
                                   ELSE p1}}) :
                      p1 \in {ReplaceAt(para, runs[i], RemoveTabs(At(para, runs[i])))} })
         ELSE RemoveTabRuns(para, runs, i + 1)

RemoveTabInPara(para) ==
    The({ IF runs = <<>> THEN para
          ELSE IF ~Contains(FullText(para), HanbaiMei) THEN para
          ELSE RemoveTabRuns(para, runs, 1) :
            runs \in {Iter(para, "r")} })

RECURSIVE RemoveTabLoop(_, _, _)
RemoveTabLoop(e, paras, i) ==
    IF i > Len(paras) THEN e
    ELSE The({RemoveTabLoop(e1, paras, i + 1) :
                e1 \in {ReplaceAt(e, paras[i],
                                  The({RemoveTabInPara(para) : para \in {At(e, paras[i])}}))}})

\* _remove_tab_before_<label>(element)
remove_tab_before_label(e) ==
    The({ The({RemoveTabLoop(e0, paras, 1) : paras \in {Iter(e0, "p")}}) : e0 \in {e} })

(***************************************************************************)
(* top-page.py: documents.  A document file holds the body (its block      *)
(* children, the section properties among them) and the header and footer  *)
(* parts the section properties refer to; part k has the relationship id   *)
(* RId(k).  A loaded document holds the identities of the children of the  *)
(* body and of every part; the elements themselves live in the heap.       *)
(***************************************************************************)
Min(a, b) == IF a < b THEN a ELSE b

Deref(h, ids) == [i \in DOMAIN ids |-> h[ids[i]]]

\* the indices of the children with the tag, in order
IdxsOf(e, tag) ==
    SelectSeq([i \in DOMAIN e.kids |-> i], LAMBDA i : e.kids[i].tag = tag)

\* the elements of a child list, loaded as fresh objects
LoadList(h, trees) ==
    [heap |-> h \o trees, ids |-> [i \in 1..Len(trees) |-> Len(h) + i]]

RECURSIVE LoadParts(_, _, _, _)
LoadParts(h, parts, i, acc) ==
    IF i > Len(parts) THEN [heap |-> h, parts |-> acc]
    ELSE The({LoadParts(l.heap, parts, i + 1, Append(acc, l.ids)) :
                l \in {LoadList(h, parts[i])}})

\* Document(path): the file's trees become objects of their own
Document(h, file) ==
    The({ The({[heap |-> b.heap, doc |-> [parts |-> ps.parts, body |-> b.ids]] :
                 b \in {LoadList(ps.heap, file.body)}}) :
            ps \in {LoadParts(h, file.parts, 1, <<>>)} })

\* what document.save writes: the trees the document holds
Saved(h, d) ==
    [parts |-> [k \in DOMAIN d.parts |-> Deref(h, d.parts[k])],
     body |-> Deref(h, d.body)]

\* a faulty variant: the element itself is handed on, no copy is made
deepcopy_alias(h, id) == [heap |-> h, id |-> id]

\* deepcopy(elem): a new object with an equal tree
deepcopy(h, id) == [heap |-> Append(h, h[id]), id |-> Len(h) + 1]

(***************************************************************************)
(* top-page.py: the sections of a document, as document.sections,          *)
(* section.header, section.first_page_header, section.footer,              *)
(* section.first_page_footer and different_first_page_header_footer hand   *)
(* them to the script.  A section is a w:sectPr element: the w:pPr/w:sectPr*)
(* of a body paragraph, or the w:sectPr child of the body.  A header or    *)
(* footer a section does not define is the one of the section before it;   *)
(* reaching for the element of a header the first section does not define  *)
(* creates the definition.                                                 *)
(***************************************************************************)
\* where a body child holds section properties: the path inside the child
SectPrPaths(elem) ==
    IF elem.tag = "sectPr" THEN << <<>> >>
    ELSE IF elem.tag = "p" /\ HasChild(elem, "pPr")
         THEN The({ IF HasChild(elem.kids[i], "sectPr")
                    THEN << <<i, FindIdx(elem.kids[i], "sectPr")>> >>
                    ELSE <<>> :
                      i \in {FindIdx(elem, "pPr")} })
         ELSE <<>>

RECURSIVE SectionsFrom(_, _, _)
SectionsFrom(h, body, b) ==
    IF b > Len(body) THEN <<>>
    ELSE The({[k \in DOMAIN ps |-> [at |-> b, path |-> ps[k]]] :
                ps \in {SectPrPaths(h[body[b]])}})
         \o SectionsFrom(h, body, b + 1)

\* document.sections: where the section properties are, in document order
Sections(h, d) == SectionsFrom(h, d.body, 1)

\* section._sectPr
SectPr(h, d, s) == At(h[d.body[s.at]], s.path)

\* the heap after the section properties of section s became new
SetSectPr(h, d, s, new) == [h EXCEPT ![d.body[s.at]] = ReplaceAt(@, s.path, new)]

\* the relationship id of part k
RId(k) == ToString(k)

\* the part a relationship id names
PartOf(parts, id) == CHOOSE k \in DOMAIN parts : RId(k) = id

\* the w:headerReference or w:footerReference children of the type
RefIdxs(sectPr, kind, type) ==
    SelectSeq(IdxsOf(sectPr, kind), LAMBDA i : Get(sectPr.kids[i], "type") = type)

\* not is_linked_to_previous: the section properties refer to a part
HasDefinition(sectPr, kind, type) == RefIdxs(sectPr, kind, type) # <<>>

Definition(parts, sectPr, kind, type) ==
    PartOf(parts, Get(sectPr.kids[RefIdxs(sectPr, kind, type)[1]], "id"))

\* a new child takes its place in the order of the schema: before the first
\* child that has to follow it, last when there is none
InsertBefore(e, k, successors) ==
    IF \E i \in DOMAIN e.kids : e.kids[i].tag \in successors
    THEN InsertKid(e, (CHOOSE i \in DOMAIN e.kids :
                          /\ e.kids[i].tag \in successors
                          /\ \A j \in 1..(i - 1) : e.kids[j].tag \notin successors) - 1, k)
    ELSE AppendKid(e, k)

\* the children of section properties that follow the references
AfterReferences == {"pgSz", "pgNumType", "titlePg", "docGrid"}

\* the children of section properties that follow w:titlePg
AfterTitlePg == {"docGrid"}

Reference(kind, type, id) == E(kind, << <<"type", type>>, <<"id", id>> >>, <<>>, <<>>)

\* the content of a new header or footer part: one empty paragraph of the
\* style Header or Footer
DefaultContent(kind) ==
    E("p", <<>>, <<>>,
      <<E("pPr", <<>>, <<>>,
          <<E("pStyle",
              << <<"val", IF kind = "headerReference" THEN "Header" ELSE "Footer">> >>,
              <<>>, <<>>)>>)>>)

\* the first section gets a definition of its own: a new part, and the
\* reference to it in the section properties
add_definition(h, d, s, sectPr, kind, type) ==
    [heap |-> Append(SetSectPr(h, d, s,
                               InsertBefore(sectPr,
                                            Reference(kind, type, RId(Len(d.parts) + 1)),
                                            AfterReferences)),
                     DefaultContent(kind)),
     doc |-> [d EXCEPT !.parts = Append(@, <<Len(h) + 1>>)],
     part |-> Len(d.parts) + 1]

\* section.header._element and the like, for section i (from 1): the part
\* that holds the definition the section uses
RECURSIVE get_or_add_definition(_, _, _, _, _, _)
get_or_add_definition(h, d, secs, i, kind, type) ==
    The({ IF HasDefinition(sectPr, kind, type)
          THEN [heap |-> h, doc |-> d, part |-> Definition(d.parts, sectPr, kind, type)]
          ELSE IF i > 1 THEN get_or_add_definition(h, d, secs, i - 1, kind, type)
          ELSE add_definition(h, d, secs[1], sectPr, kind, type) :
            sectPr \in {SectPr(h, d, secs[i])} })

\* section.different_first_page_header_footer = True
set_title_page(sectPr) ==
    IF HasChild(sectPr, "titlePg")
    THEN [sectPr EXCEPT !.kids[FindIdx(sectPr, "titlePg")] = Leaf("titlePg")]
    ELSE InsertBefore(sectPr, Leaf("titlePg"), AfterTitlePg)

\* section.different_first_page_header_footer
different_first_page_header_footer(sectPr) ==
    /\ HasChild(sectPr, "titlePg")
    /\ Get(sectPr.kids[FindIdx(sectPr, "titlePg")], "val") \notin {"0", "false"}

(***************************************************************************)
(* top-page.py: headers                                                    *)
(***************************************************************************)
\* for child in source_header: target_header.append(deepcopy(child))
RECURSIVE CopyChildren(_, _, _, _)
CopyChildren(h, src, i, acc) ==
    IF i > Len(src) THEN [heap |-> h, ids |-> acc]
    ELSE The({CopyChildren(c.heap, src, i + 1, Append(acc, c.id)) :
                c \in {deepcopy(h, src[i])}})

\* _replace_variables_in_element(target_header): the paragraphs of every child
RECURSIVE ReplaceVariablesInChildren(_, _, _, _)
ReplaceVariablesInChildren(h, ids, i, vs) ==
    IF i > Len(ids) THEN h
    ELSE The({ReplaceVariablesInChildren(h1, ids, i + 1, vs) :
                h1 \in {[h EXCEPT ![ids[i]] = replace_variables_in_element(@, vs)]}})

\* _remove_tab_before_<label>(target_header): the paragraphs of every child
RECURSIVE RemoveTabInChildren(_, _, _)
RemoveTabInChildren(h, ids, i) ==
    IF i > Len(ids) THEN h
    ELSE The({RemoveTabInChildren(h1, ids, i + 1) :
                h1 \in {[h EXCEPT ![ids[i]] = remove_tab_before_label(@)]}})

\* _copy_header_element(source_header, target_header): the new child list of
\* the target header (the old children are dropped) and the new heap
copy_header_element(h, source_header, vs) ==
    The({ The({ [heap |-> RemoveTabInChildren(h1, c.ids, 1), ids |-> c.ids] :
                  h1 \in {ReplaceVariablesInChildren(c.heap, c.ids, 1, vs)} }) :
            c \in {CopyChildren(h, source_header, 1, <<>>)} })

\* min(i, len(self.template_doc.sections) - 1), counted from 0
TemplateSectionIndex(i, n) == Min(i, n - 1)

\* template_section.first_page_header is not None: the library hands out a
\* header object for every section, so the test never fails
FirstPageHeaderIsNotNone(template_section) == TRUE

\* source = template_section.<header>._element; target = target_section.<header>._element;
\* self._copy_header_element(source, target), for template section ti and
\* target section i (both from 1)
CopyHeaderOfType(h, target, template, tsecs, msecs, i, ti, type, vs) ==
    The({ The({ The({
        [heap |-> c.heap,
         target |-> [b.doc EXCEPT !.parts[b.part] = c.ids],
         template |-> a.doc] :
        c \in {copy_header_element(b.heap, a.doc.parts[a.part], vs)} }) :
        b \in {get_or_add_definition(a.heap, target, tsecs, i, "headerReference", type)} }) :
        a \in {get_or_add_definition(h, template, msecs, ti, "headerReference", type)} })

\* the body of the loop of _copy_headers, for target section i (from 0)
CopyHeadersOfSection(h, target, template, tsecs, msecs, i, vs) ==
    The({ The({ The({
        CopyHeaderOfType(a.heap, a.target, a.template, tsecs, msecs, i + 1, ti, "default", vs) :
        a \in {IF FirstPageHeaderIsNotNone(msecs[ti])
               THEN CopyHeaderOfType(h1, target, template, tsecs, msecs, i + 1, ti, "first", vs)
               ELSE [heap |-> h1, target |-> target, template |-> template]} }) :
        h1 \in {IF FirstPageHeaderIsNotNone(msecs[ti])
                THEN SetSectPr(h, target, tsecs[i + 1],
                               set_title_page(SectPr(h, target, tsecs[i + 1])))
                ELSE h} }) :
        ti \in {TemplateSectionIndex(i, Len(msecs)) + 1} })

RECURSIVE CopyHeadersLoop(_, _, _, _, _, _, _)
CopyHeadersLoop(h, target, template, tsecs, msecs, i, vs) ==
    IF i >= Len(tsecs) THEN [heap |-> h, target |-> target, template |-> template]
    ELSE The({CopyHeadersLoop(r.heap, r.target, r.template, tsecs, msecs, i + 1, vs) :
                r \in {CopyHeadersOfSection(h, target, template, tsecs, msecs, i, vs)}})

\* _copy_headers()
copy_headers(h, target, template, vs) ==
    The({ The({CopyHeadersLoop(h, target, template, tsecs, msecs, 0, vs) :
                 msecs \in {Sections(h, template)}}) :
            tsecs \in {Sections(h, target)} })

(***************************************************************************)
(* top-page.py: footers                                                    *)
(***************************************************************************)
FldChar(type) ==
    E("r", <<>>, <<>>, <<E("fldChar", << <<"fldCharType", type>> >>, <<>>, <<>>)>>)

\* the paragraph _create_page_field_footer builds
PageFieldParagraph ==
    E("p", <<>>, <<>>,
      << E("pPr", <<>>, <<>>, <<E("jc", << <<"val", "center">> >>, <<>>, <<>>)>>),
         FldChar("begin"),
         E("r", <<>>, <<>>,
           <<E("instrText", << <<"xml:space", "preserve">> >>,
               <<" ", "P", "A", "G", "E", " ">>, <<>>)>>),
         FldChar("separate"),
         E("r", <<>>, <<>>, <<E("t", <<>>, <<"1">>, <<>>)>>),
         FldChar("end") >>)

\* _create_page_field_footer(footer_element): the footer's new child list
create_page_field_footer(h) ==
    [heap |-> Append(h, PageFieldParagraph), ids |-> <<Len(h) + 1>>]

FindOrAppend(e, tag) == IF HasChild(e, tag) THEN e ELSE AppendKid(e, Leaf(tag))

\* _set_page_number_format(section), on the section properties
set_page_number_format(sectPr) ==
    The({[s1 EXCEPT !.kids[FindIdx(s1, "pgNumType")] =
             Set(Set(@, "fmt", "numberInDash"), "start", "0")] :
           s1 \in {FindOrAppend(sectPr, "pgNumType")}})

\* the body of the loop of _copy_footers, for target section i (from 1)
CopyFootersOfSection(h, target, tsecs, i) ==
    The({ The({ The({ The({
        [heap |-> f.heap, target |-> [b.doc EXCEPT !.parts[b.part] = f.ids]] :
        f \in {create_page_field_footer(b.heap)} }) :
        b \in {get_or_add_definition(a.heap, [a.doc EXCEPT !.parts[a.part] = <<>>],
                                     tsecs, i, "footerReference", "default")} }) :
        a \in {get_or_add_definition(h1, target, tsecs, i, "footerReference", "first")} }) :
        h1 \in {SetSectPr(h, target, tsecs[i],
                          set_page_number_format(
                              set_title_page(SectPr(h, target, tsecs[i]))))} })

RECURSIVE CopyFootersLoop(_, _, _, _)
CopyFootersLoop(h, target, tsecs, i) ==
    IF i > Len(tsecs) THEN [heap |-> h, target |-> target]
    ELSE The({CopyFootersLoop(r.heap, r.target, tsecs, i + 1) :
                r \in {CopyFootersOfSection(h, target, tsecs, i)}})

\* _copy_footers()
copy_footers(h, target) ==
    The({CopyFootersLoop(h, target, tsecs, 1) : tsecs \in {Sections(h, target)}})

(***************************************************************************)
(* top-page.py: cover page                                                 *)
(***************************************************************************)
\* some element of the tree carries the attribute with the value
RECURSIVE HasAttrValue(_, _, _)
HasAttrValue(e, name, value) ==
    \/ \E i \in DOMAIN e.attrs : e.attrs[i] = <<name, value>>
    \/ \E k \in DOMAIN e.kids : HasAttrValue(e.kids[k], name, value)

\* 'w:br' in xml_str and 'w:type="page"' in xml_str
ContainsPageBreak(e) == Iter(e, "br") # <<>> /\ HasAttrValue(e, "type", "page")

RECURSIVE CoverFrom_without_break(_, _, _)
CoverFrom_without_break(h, body, i) ==
    IF i > Len(body) THEN <<>>
    ELSE LET elem == h[body[i]]
         IN  IF elem.tag = "p"
             THEN IF ContainsPageBreak(elem) THEN <<>>
                  ELSE <<body[i]>> \o CoverFrom_without_break(h, body, i + 1)
             ELSE IF elem.tag = "sectPr" THEN <<>>
             ELSE <<body[i]>> \o CoverFrom_without_break(h, body, i + 1)

\* the loop of _get_cover_page_elements, from body child i on
RECURSIVE CoverFrom(_, _, _)
CoverFrom(h, body, i) ==
    IF i > Len(body) THEN <<>>
    ELSE LET elem == h[body[i]]
         IN  IF elem.tag = "p"
             THEN IF ContainsPageBreak(elem) THEN <<body[i]>>
                  ELSE <<body[i]>> \o CoverFrom(h, body, i + 1)
             ELSE IF elem.tag = "tbl" THEN <<body[i]>> \o CoverFrom(h, body, i + 1)
             ELSE IF elem.tag = "sectPr" THEN <<>>
             ELSE <<body[i]>> \o CoverFrom(h, body, i + 1)

\* a faulty variant: the page-break paragraph is left out of the cover
get_cover_page_elements_without_break(h, body) == CoverFrom_without_break(h, body, 1)

\* _get_cover_page_elements(doc)
get_cover_page_elements(h, body) == CoverFrom(h, body, 1)

\* _set_cell_width(tc, width_twips); the width is written as str(width_twips)
SetTcW(tcPr, width_twips) ==
    The({[tcPr1 EXCEPT !.kids[FindIdx(tcPr1, "tcW")] =
             Set(Set(@, "w", ToString(width_twips)), "type", "dxa")] :
           tcPr1 \in {IF HasChild(tcPr, "tcW") THEN tcPr
                      ELSE InsertKid(tcPr, 0, Leaf("tcW"))}})

set_cell_width(tc, width_twips) ==
    The({[tc1 EXCEPT !.kids[FindIdx(tc1, "tcPr")] = SetTcW(@, width_twips)] :
           tc1 \in {IF HasChild(tc, "tcPr") THEN tc ELSE InsertKid(tc, 0, Leaf("tcPr"))}})

\* a faulty variant: the product is rounded to the nearest integer
Twips_rounded(mm) == (mm * 567 + 5) \div 10

\* int(mm * 56.7): 1 mm is taken as 56.7 twips, the product is truncated
Twips(mm) == (mm * 567) \div 10

\* the table properties part of _set_table_column_widths
SetTableLayout(tblPr, total_twips) ==
    The({ The({
        [b EXCEPT !.kids[FindIdx(b, "tblW")] =
            Set(Set(@, "w", ToString(total_twips)), "type", "dxa")] :
        b \in {FindOrAppend([a EXCEPT !.kids[FindIdx(a, "tblLayout")] =
                                Set(@, "type", "fixed")], "tblW")} }) :
        a \in {FindOrAppend(tblPr, "tblLayout")} })

\* the row part of _set_table_column_widths
SetRowWidths(tr, col1_twips, col2_twips) ==
    LET tcs == IdxsOf(tr, "tc")
        r1 == IF Len(tcs) >= 1
              THEN [tr EXCEPT !.kids[tcs[1]] = set_cell_width(@, col1_twips)]
              ELSE tr
    IN  IF Len(tcs) >= 2
        THEN [r1 EXCEPT !.kids[tcs[2]] = set_cell_width(@, col2_twips)]
        ELSE r1

\* the grid part of _set_table_column_widths
SetGridWidths(tblGrid, col1_twips, col2_twips) ==
    LET gridCols == IdxsOf(tblGrid, "gridCol")
        g1 == IF Len(gridCols) >= 1
              THEN [tblGrid EXCEPT !.kids[gridCols[1]] = Set(@, "w", ToString(col1_twips))]
              ELSE tblGrid
    IN  IF Len(gridCols) >= 2
        THEN [g1 EXCEPT !.kids[gridCols[2]] = Set(@, "w", ToString(col2_twips))]
        ELSE g1

\* _set_table_column_widths(table_element, col1_mm, col2_mm)
set_table_column_widths(tbl, col1_mm, col2_mm) ==
    LET col1_twips == Twips(col1_mm)
        col2_twips == Twips(col2_mm)
        total_twips == col1_twips + col2_twips
    IN  The({ The({
            IF HasChild(t2, "tblGrid")
            THEN [t2 EXCEPT !.kids[FindIdx(t2, "tblGrid")] =
                     SetGridWidths(@, col1_twips, col2_twips)]
            ELSE t2 :
            t2 \in {[t1 EXCEPT !.kids = [k \in DOMAIN t1.kids |->
                        IF t1.kids[k].tag = "tr"
                        THEN SetRowWidths(t1.kids[k], col1_twips, col2_twips)
                        ELSE t1.kids[k]]]} }) :
            t1 \in {IF HasChild(tbl, "tblPr")
                    THEN [tbl EXCEPT !.kids[FindIdx(tbl, "tblPr")] =
                             SetTableLayout(@, total_twips)]
                    ELSE tbl} })

\* target_body.insert(index, elem); an index past the end appends
InsertAt(seq, index, x) ==
    LET k == Min(index, Len(seq))
    IN  SubSeq(seq, 1, k) \o <<x>> \o SubSeq(seq, k + 1, Len(seq))

\* list(target_body).index(elem), counted from 0
IndexOf(seq, x) == (CHOOSE i \in DOMAIN seq : seq[i] = x /\ \A j \in 1..(i - 1) : seq[j] # x) - 1

\* the loop that copies the template's cover elements into the target body;
\* i counts from 0 as in the source
RECURSIVE InsertCoverLoop(_, _, _, _, _, _, _)
InsertCoverLoop(h, body, template_cover, i, insert_position, first_table, vs) ==
    IF i >= Len(template_cover) THEN [heap |-> h, body |-> body]
    ELSE The({ The({ The({
            InsertCoverLoop(h2, InsertAt(body, insert_position + i, c.id), template_cover,
                            i + 1, insert_position,
                            IF new_elem.tag = "tbl" /\ first_table THEN FALSE
                            ELSE first_table, vs) :
            h2 \in {[c.heap EXCEPT ![c.id] =
                        IF new_elem.tag = "tbl" /\ first_table
                        THEN set_table_column_widths(new_elem, 45, 135)
                        ELSE new_elem]} }) :
            new_elem \in {replace_variables_in_element(c.heap[c.id], vs)} }) :
            c \in {deepcopy(h, template_cover[i + 1])} })

\* for elem in target_cover: target_body.remove(elem)
RemoveElements(body, elems) ==
    SelectSeq(body, LAMBDA id : \A k \in DOMAIN elems : elems[k] # id)

\* _replace_cover_page()
replace_cover_page(h, target, template, vs) ==
    The({ The({ The({
        [heap |-> r.heap, doc |-> [target EXCEPT !.body = r.body]] :
        r \in {InsertCoverLoop(h, RemoveElements(target.body, target_cover), template_cover,
                               0,
                               IF target_cover # <<>>
                               THEN IndexOf(target.body, target_cover[1])
                               ELSE 0,
                               TRUE, vs)} }) :
        target_cover \in {get_cover_page_elements(h, target.body)} }) :
        template_cover \in {get_cover_page_elements(h, template.body)} })

(***************************************************************************)
(* top-page.py: format()                                                   *)
(***************************************************************************)
\* self.target_doc = Document(source_path)
Format ==
    /\ pc = "idle"
    /\ Len(outputs) < MaxFormats
    /\ \E k \in DOMAIN source_files :
        \E l \in {Document(heap, source_files[k])} :
            /\ heap' = l.heap
            /\ target_doc' = l.doc
            /\ source' = k
    /\ pc' = "copy_headers"
    /\ UNCHANGED <<template_file, template_doc, variables, source_files, outputs>>
    /\ UNCHANGED rvars

\* self._copy_headers()
CopyHeaders ==
    /\ pc = "copy_headers"
    /\ \E r \in {copy_headers(heap, target_doc, template_doc, variables)} :
           heap' = r.heap /\ target_doc' = r.target /\ template_doc' = r.template
    /\ pc' = "copy_footers"
    /\ UNCHANGED <<template_file, variables, source_files, source, outputs>>
    /\ UNCHANGED rvars

\* self._copy_footers()
CopyFooters ==
    /\ pc = "copy_footers"
    /\ \E r \in {copy_footers(heap, target_doc)} :
           heap' = r.heap /\ target_doc' = r.target
    /\ pc' = "replace_cover_page"
    /\ UNCHANGED <<template_file, template_doc, variables, source_files, source, outputs>>
    /\ UNCHANGED rvars

\* self._replace_cover_page()
ReplaceCoverPage ==
    /\ pc = "replace_cover_page"
    /\ \E r \in {replace_cover_page(heap, target_doc, template_doc, variables)} :
           heap' = r.heap /\ target_doc' = r.doc
    /\ pc' = "save"
    /\ UNCHANGED <<template_file, template_doc, variables, source_files, source, outputs>>
    /\ UNCHANGED rvars

\* self.target_doc.save(output_path); format() returns
SaveTarget ==
    /\ pc = "save"
    /\ outputs' = Append(outputs, [source |-> source, doc |-> Saved(heap, target_doc)])
    /\ pc' = "idle"
    /\ UNCHANGED <<heap, template_file, template_doc, variables, source_files, source,
                   target_doc>>
    /\ UNCHANGED rvars

Next ==
    \/ Format
    \/ CopyHeaders
    \/ CopyFooters
    \/ ReplaceCoverPage
    \/ SaveTarget

(***************************************************************************)
(* Inputs of top-page.py.                                                  *)
(***************************************************************************)
DocCode == <<"D", "o", "c", "C", "o", "d", "e">>
DocName == <<"D", "o", "c", "N", "a", "m", "e">>
Version == <<"V", "e", "r", "s", "i", "o", "n">>

\* the dict main() builds from the command line, in its order
Variables(doc_code, doc_name, version) ==
    << <<DocCode, doc_code>>, <<DocName, doc_name>>, <<Version, version>> >>

\* the command line's defaults; the default document name is written S
DefaultVariables == Variables(<<"D", "-", "0", "0", "0">>, <<"S">>, <<"1", ".", "0">>)

\* a document name that is the label before which tabs are removed
LabelVariables == Variables(<<"D", "1">>, HanbaiMei, <<>>)

\* the mappings tried: the defaults, values that hold the label, a token or
\* part of a token, and the empty string
MappingPool ==
    { DefaultVariables,
      LabelVariables,
      Variables(Token(Version), <<"N">>, <<"1">>),
      Variables(<<"D", "1">>, Token(DocCode), <<"C", "o", "d", "e">>) }

T(text) == E("t", <<>>, text, <<>>)
R(kids) == E("r", <<>>, <<>>, kids)
P(kids) == E("p", <<>>, <<>>, kids)

\* a paragraph of runs with one text element each
Para(frags) == P([i \in DOMAIN frags |-> R(<<T(frags[i])>>)])

\* the text fragments paragraphs are built from
FragPool ==
    { Token(DocCode), Token(DocName), Token(Version),
      <<"$", "D", "o", "c">>, <<"C", "o", "d", "e">>, <<>> }

TextParas == { Para(f) : f \in UNION {[1..k -> FragPool] : k \in 1..MaxFrags} }

\* paragraphs of three fragments: a token split over two runs, a token that
\* an empty value would join, an empty fragment first
SplitParas ==
    { Para(<< <<"$", "D", "o", "c">>, <<"C", "o", "d", "e">>, Token(Version) >>),
      Para(<< <<"$", "D", "o", "c">>, Token(Version), <<"C", "o", "d", "e">> >>),
      Para(<< <<>>, <<"$", "D", "o", "c">>, <<"N", "a", "m", "e">> >>),
      Para(<< Token(DocName), <<" ">>, Token(DocCode) >>) }

\* a paragraph with tabs in the run of the label and in the runs around it
LabelTabsPara ==
    P(<<R(<<Leaf("tab")>>), R(<<Leaf("tab"), T(HanbaiMei), Leaf("tab")>>), R(<<Leaf("tab")>>)>>)

\* paragraphs with tabs around the label
LabelParas ==
    { LabelTabsPara,
      P(<<R(<<Leaf("tab"), T(<<"h", "b">>)>>), R(<<T(<<"m">>)>>)>>),
      P(<<R(<<Leaf("tab"), T(<<"a">>)>>), R(<<T(Token(DocName))>>), R(<<Leaf("tab"), T(<<"z">>)>>)>>),
      P(<<R(<<T(<<"a">>)>>), R(<<Leaf("tab")>>), R(<<T(<<>>), T(HanbaiMei)>>)>>) }

PageBreakPara == P(<<R(<<E("br", << <<"type", "page">> >>, <<>>, <<>>)>>)>>)
LineBreakPara == P(<<R(<<T(<<"a">>), Leaf("br"), T(Token(DocCode))>>)>>)
PlainPara == Para(<<Token(DocCode), <<"-">>, Token(Version)>>)
OldPara == Para(<<<<"o", "l", "d">>>>)
Bookmark == Leaf("bookmarkStart")

Cell(kids) == E("tc", <<>>, <<>>, kids)
Row(cells) == E("tr", <<>>, <<>>, cells)
GridCol(w) == E("gridCol", << <<"w", w>> >>, <<>>, <<>>)

\* a table of two columns: a row of two cells, a row of one merged cell
TwoColumnTable ==
    E("tbl", <<>>, <<>>,
      << E("tblPr", <<>>, <<>>, <<E("tblW", << <<"w", "0">>, <<"type", "auto">> >>, <<>>, <<>>)>>),
         E("tblGrid", <<>>, <<>>, <<GridCol("4000"), GridCol("4000")>>),
         Row(<<Cell(<<E("tcPr", <<>>, <<>>,
                        <<E("tcW", << <<"w", "4000">>, <<"type", "dxa">> >>, <<>>, <<>>)>>),
                      Para(<<Token(DocName)>>)>>),
               Cell(<<Para(<<<<"$", "D", "o", "c">>, <<"C", "o", "d", "e">>>>)>>)>>),
         Row(<<Cell(<<E("tcPr", <<>>, <<>>, <<E("gridSpan", << <<"val", "2">> >>, <<>>, <<>>)>>),
                      Para(<<<<"x">>>>)>>)>>) >>)

\* a table of three columns, laid out automatically
ThreeColumnTable ==
    E("tbl", <<>>, <<>>,
      << E("tblPr", <<>>, <<>>, <<E("tblLayout", << <<"type", "autofit">> >>, <<>>, <<>>)>>),
         E("tblGrid", <<>>, <<>>, <<GridCol("1000"), GridCol("2000"), GridCol("3000")>>),
         Row(<<Cell(<<Para(<<<<"a">>>>)>>), Cell(<<Para(<<<<"b">>>>)>>),
               Cell(<<Para(<<Token(Version)>>)>>)>>) >>)

\* a table of one column
OneColumnTable ==
    E("tbl", <<>>, <<>>,
      << Leaf("tblPr"),
         E("tblGrid", <<>>, <<>>, <<GridCol("5000")>>),
         Row(<<Cell(<<Para(<<<<"y">>>>)>>)>>) >>)

SectPrOf(kids) == E("sectPr", <<>>, <<>>, kids)

\* the last paragraph of a section that is not the last one of the document
SectionBreak(sectPr) == P(<<E("pPr", <<>>, <<>>, <<sectPr>>)>>)

Header(type, k) == Reference("headerReference", type, RId(k))
Footer(type, k) == Reference("footerReference", type, RId(k))

PgNumType(attrs) == E("pgNumType", attrs, <<>>, <<>>)

\* ---- template sections and the parts they refer to
TemplateParts ==
    << <<PlainPara>>,
       <<Para(<<Token(DocName)>>), OldPara>>,
       <<Para(<<<<"2">>, Token(Version)>>)>>,
       <<LabelTabsPara>>,
       <<TwoColumnTable>> >>

\* both headers defined, different first page
TemplateFull == SectPrOf(<<Header("first", 1), Header("default", 2), Leaf("titlePg")>>)
\* the header of the other pages only
TemplateDefaultOnly ==
    SectPrOf(<<Header("default", 3), PgNumType(<< <<"fmt", "decimal">> >>)>>)
TemplateLabel == SectPrOf(<<Header("first", 4), Header("default", 5)>>)
\* no header of its own: the headers of the section before
TemplateLinked == SectPrOf(<<Leaf("pgSz")>>)

TemplateSectPrPool == {TemplateFull, TemplateDefaultOnly, TemplateLabel, TemplateLinked}

\* ---- target sections and the parts they refer to
TargetParts ==
    << <<OldPara>>, <<OldPara, OldPara>>, <<OldPara>>, <<OldPara, PlainPara>>,
       <<Para(<<<<"5">>>>)>>, <<>>, <<OldPara>>, <<Para(<<<<"8">>>>)>>, <<PlainPara>> >>

\* headers, footers and a page-number format of its own
TargetOwn ==
    SectPrOf(<<Header("first", 1), Header("default", 2), Footer("first", 3),
               Footer("default", 4), Leaf("pgSz"),
               PgNumType(<< <<"fmt", "decimal">>, <<"start", "5">>, <<"chapStyle", "1">> >>)>>)
\* everything is that of the section before; the first page is not different
TargetLinked ==
    SectPrOf(<<Leaf("pgSz"), E("titlePg", << <<"val", "0">> >>, <<>>, <<>>), Leaf("docGrid")>>)
\* the header and the footer of the other pages only
TargetHalf ==
    SectPrOf(<<Header("default", 5), Footer("default", 6), PgNumType(<< <<"start", "1">> >>),
               Leaf("titlePg")>>)
\* both headers and the first-page footer
TargetSecond ==
    SectPrOf(<<Header("default", 7), Header("first", 8), Footer("first", 9), Leaf("docGrid")>>)

TargetSectPrPool == {TargetOwn, TargetLinked, TargetHalf, TargetSecond}

\* the sequences in which no section properties but the linked ones come
\* twice: a part belongs to one section
Sectioned(pool, linked, n) ==
    { ss \in SeqsUpTo(pool, n) \ {<<>>} :
        \A i, j \in DOMAIN ss : (i # j /\ ss[i] = ss[j]) => ss[i] = linked }

DocFile(parts, elems, sectPr) == [parts |-> parts, body |-> elems \o <<sectPr>>]

\* a document of the sections ss whose first page is the elements cover: the
\* section breaks come before the cover's elements or after them
SectionedFile(parts, ss, cover, breaks_first) ==
    LET breaks == [i \in 1..(Len(ss) - 1) |-> SectionBreak(ss[i])]
    IN  DocFile(parts,
                IF breaks_first THEN breaks \o cover ELSE cover \o breaks,
                ss[Len(ss)])

TemplateElemPool ==
    {PlainPara, PageBreakPara, LineBreakPara, TwoColumnTable, ThreeColumnTable,
     OneColumnTable, Bookmark, SectionBreak(TemplateLinked)}

TargetElemPool == {OldPara, PageBreakPara, OneColumnTable, Bookmark, SectionBreak(TargetLinked)}

SimpleSource == DocFile(TargetParts, <<OldPara, PageBreakPara, OldPara>>, TargetOwn)
OtherSource ==
    DocFile(TargetParts, <<OneColumnTable, SectionBreak(TargetLinked), OldPara>>, TargetHalf)

SimpleTemplate ==
    DocFile(TemplateParts, <<TwoColumnTable, PlainPara, PageBreakPara, OldPara>>, TemplateFull)

TwoSectionTemplate ==
    SectionedFile(TemplateParts, <<TemplateFull, TemplateLabel>>,
                  <<PlainPara, PageBreakPara>>, FALSE)

\* a template whose headers and cover hold the paragraph, also inside a table
TextTemplate(p) ==
    DocFile(<< <<p>>, <<OldPara, p>> >>,
            <<p, E("tbl", <<>>, <<>>, <<Leaf("tblPr"), Leaf("tblGrid"), Row(<<Cell(<<p>>)>>)>>),
              PageBreakPara, p>>,
            SectPrOf(<<Header("first", 1), Header("default", 2)>>))

\* the state after DocxFormatter(template_path, variables)
InitWith(tfile, sfiles, vs) ==
    /\ pc = "idle"
    /\ template_file = tfile
    /\ \E l \in {Document(<<>>, tfile)} :
           heap = l.heap /\ template_doc = l.doc
    /\ variables = vs
    /\ source_files = sfiles
    /\ source = 0
    /\ target_doc = <<>>
    /\ outputs = <<>>
    /\ RecolorUnused

Init ==
    \* texts: every paragraph of fragments, under every mapping
    \/ \E p \in TextParas \cup SplitParas \cup LabelParas, vs \in MappingPool :
           InitWith(TextTemplate(p), <<SimpleSource>>, vs)
    \* covers of the template
    \/ \E elems \in SeqsUpTo(TemplateElemPool, MaxBody), src \in {SimpleSource, OtherSource} :
           InitWith(DocFile(TemplateParts, elems, TemplateFull), <<src>>, DefaultVariables)
    \* covers of the target
    \/ \E elems \in SeqsUpTo(TargetElemPool, MaxBody), last \in {TargetOwn, TargetLinked} :
           InitWith(SimpleTemplate, <<DocFile(TargetParts, elems, last)>>, DefaultVariables)
    \* sections of the template
    \/ \E ss \in Sectioned(TemplateSectPrPool, TemplateLinked, MaxTemplateSections),
          breaks_first \in BOOLEAN, vs \in {DefaultVariables, LabelVariables} :
           InitWith(SectionedFile(TemplateParts, ss, <<PlainPara, PageBreakPara>>, breaks_first),
                    <<SectionedFile(TargetParts, <<TargetOwn, TargetSecond, TargetHalf>>,
                                    <<OldPara, PageBreakPara>>, FALSE)>>,
                    vs)
    \* sections of the target
    \/ \E ss \in Sectioned(TargetSectPrPool, TargetLinked, MaxTargetSections),
          breaks_first \in BOOLEAN, tfile \in {SimpleTemplate, TwoSectionTemplate} :
           InitWith(tfile,
                    <<SectionedFile(TargetParts, ss, <<OldPara, PageBreakPara>>, breaks_first)>>,
                    DefaultVariables)
    \* one formatter, two sources
    \/ \E vs \in MappingPool :
           InitWith(SimpleTemplate, <<SimpleSource, OtherSource>>, vs)

Spec == Init /\ [][Next]_vars

(***************************************************************************)
(* Properties of top-page.py.                                              *)
(***************************************************************************)
\* the paragraphs of a child list, in document order
RECURSIVE ParagraphsOf(_, _)
ParagraphsOf(trees, i) ==
    IF i > Len(trees) THEN <<>>
    ELSE LET ps == Iter(trees[i], "p")
         IN  [k \in DOMAIN ps |-> At(trees[i], ps[k])] \o ParagraphsOf(trees, i + 1)

\* the contents of the text fragments of a paragraph, in document order
Fragments(para) ==
    LET ts == Iter(para, "t") IN [k \in DOMAIN ts |-> At(para, ts[k]).text]

RECURSIVE Concat(_, _)
Concat(seqs, i) == IF i > Len(seqs) THEN <<>> ELSE seqs[i] \o Concat(seqs, i + 1)

\* the text of a paragraph: its fragments, joined
TextOf(para) == Concat(Fragments(para), 1)

\* the token of the variable starts at position i of the text
TokenAt(text, i, name) ==
    /\ i + Len(name) <= Len(text)
    /\ SubSeq(text, i, i + Len(name)) = Token(name)

HoldsToken(text, vs) ==
    \E i \in DOMAIN text, k \in DOMAIN vs : TokenAt(text, i, vs[k][1])

\* the text with every token replaced by the value of its variable, all at once
RECURSIVE Substituted(_, _, _)
Substituted(text, vs, i) ==
    IF i > Len(text) THEN <<>>
    ELSE IF \E k \in DOMAIN vs : TokenAt(text, i, vs[k][1])
         THEN LET k == CHOOSE k \in DOMAIN vs : TokenAt(text, i, vs[k][1])
              IN  vs[k][2] \o Substituted(text, vs, i + Len(vs[k][1]) + 1)
         ELSE <<text[i]>> \o Substituted(text, vs, i + 1)

\* a body child is a paragraph that contains a page break
IsPageBreakParagraph(e) ==
    /\ e.tag = "p"
    /\ \E k \in DOMAIN Iter(e, "br") : Get(At(e, Iter(e, "br")[k]), "type") = "page"

\* the length of the cover of a body: its children up to and including the
\* first paragraph that contains a page break, or the children before the
\* section properties when there is no such paragraph
CoverLength(body) ==
    LET stops == {i \in DOMAIN body :
                    /\ IsPageBreakParagraph(body[i])
                    /\ \A j \in 1..(i - 1) : body[j].tag # "sectPr"}
        ends == {i \in DOMAIN body : body[i].tag = "sectPr"}
    IN  IF stops # {} THEN CHOOSE i \in stops : \A j \in stops : i <= j
        ELSE IF ends # {} THEN (CHOOSE i \in ends : \A j \in ends : i <= j) - 1
        ELSE Len(body)

\* the elements of the template's cover, and their trees
TemplateCover ==
    SubSeq(template_doc.body, 1, CoverLength(Deref(heap, template_doc.body)))

\* the part whose content section i (from 1) of a document shows: the one
\* its section properties refer to, or the one of the section before; 0 when
\* there is none
RECURSIVE ShownPart(_, _, _, _, _, _)
ShownPart(h, d, secs, i, kind, type) ==
    IF i = 0 THEN 0
    ELSE LET sectPr == SectPr(h, d, secs[i])
         IN  IF HasDefinition(sectPr, kind, type)
             THEN IF \E k \in DOMAIN d.parts :
                        RId(k) = Get(sectPr.kids[RefIdxs(sectPr, kind, type)[1]], "id")
                  THEN Definition(d.parts, sectPr, kind, type)
                  ELSE 0
             ELSE ShownPart(h, d, secs, i - 1, kind, type)

\* the content section i shows as its header or footer of the type
Shown(h, d, secs, i, kind, type) ==
    LET k == ShownPart(h, d, secs, i, kind, type)
    IN  IF k = 0 THEN <<>> ELSE Deref(h, d.parts[k])

\* the first table among the elements, 0 when there is none
FirstTable(h, ids) ==
    IF \E k \in DOMAIN ids : h[ids[k]].tag = "tbl"
    THEN CHOOSE k \in DOMAIN ids :
            h[ids[k]].tag = "tbl" /\ \A j \in 1..(k - 1) : h[ids[j]].tag # "tbl"
    ELSE 0

\* _replace_cover_page took the body from the unprimed to the primed state:
\* copies of the template's cover, then what the target held after its cover
CoverReplacedBy(expected(_, _)) ==
    LET cover == TemplateCover
        n == CoverLength(Deref(heap, target_doc.body))
        rest == SubSeq(target_doc.body, n + 1, Len(target_doc.body))
        new == target_doc'.body
    IN  /\ Len(new) = Len(cover) + Len(rest)
        /\ SubSeq(new, Len(cover) + 1, Len(new)) = rest
        /\ \A k \in DOMAIN rest : heap'[rest[k]] = heap[rest[k]]
        /\ \A k \in DOMAIN cover :
            /\ new[k] \notin DOMAIN heap
            /\ \A j \in DOMAIN cover : j # k => new[j] # new[k]
            /\ heap'[new[k]] = expected(cover, k)
        /\ \A k \in 1..n : \A j \in DOMAIN new : new[j] # target_doc.body[k]

\* a copy with the variables substituted
SubstitutedCopy(cover, k) == replace_variables_in_element(heap[cover[k]], variables)

\* a copy with the variables substituted, the first table with its widths set
SubstitutedSizedCopy(cover, k) ==
    IF k = FirstTable(heap, cover)
    THEN set_table_column_widths(SubstitutedCopy(cover, k), 45, 135)
    ELSE SubstitutedCopy(cover, k)

\* C2 as stated: _replace_cover_page leaves in the body exactly the
\* variable-substituted deep copies of the template's cover elements, in
\* order from position 0, then the target's elements after its cover,
\* unchanged and in order; no element of the target's cover remains.
C2_CoverIsSubstitutedCopy ==
    [][ReplaceCoverPage => CoverReplacedBy(SubstitutedCopy)]_vars

\* C2, amended: as above, but the first table among the copies has its
\* column widths and layout set (see C7), so it is not an exact copy.
C2_CoverReplaced ==
    [][ReplaceCoverPage => CoverReplacedBy(SubstitutedSizedCopy)]_vars

\* the cover was replaced: both covers were not empty, the template's one
\* holds a table, and the target keeps elements after its cover
C2_Witness ==
    /\ pc = "save"
    /\ FirstTable(heap, TemplateCover) # 0
    /\ Len(TemplateCover) >= 2
    /\ CoverLength(source_files[source].body) >= 1
    /\ Len(target_doc.body) >= Len(TemplateCover) + 2

\* the paragraphs of the copy stand in the relation to those of the original
ParagraphsRelated(original, copy, Rel(_, _)) ==
    LET ps == ParagraphsOf(original, 1)
        qs == ParagraphsOf(copy, 1)
    IN  /\ Len(ps) = Len(qs)
        /\ \A k \in DOMAIN ps : Rel(ps[k], qs[k])

\* _copy_headers has just returned: every header a target section shows is
\* related to the same header of some template section
CopiedHeaders(Rel(_, _)) ==
    pc = "copy_footers" =>
        LET tsecs == Sections(heap, target_doc)
            msecs == Sections(heap, template_doc)
        IN  \A i \in DOMAIN tsecs : \A type \in {"first", "default"} :
                \E m \in DOMAIN msecs :
                    ParagraphsRelated(
                        Shown(heap, template_doc, msecs, m, "headerReference", type),
                        Shown(heap, target_doc, tsecs, i, "headerReference", type),
                        Rel)

\* _replace_cover_page has just returned: the copied cover is related to the
\* template's cover
CopiedCover(Rel(_, _)) ==
    pc = "save" =>
        ParagraphsRelated(Deref(heap, TemplateCover),
                          Deref(heap, SubSeq(target_doc.body, 1, Len(TemplateCover))),
                          Rel)

\* every token of the original is replaced by its value, and none is left
TokensReplaced(p, q) ==
    /\ TextOf(q) = Substituted(TextOf(p), variables, 1)
    /\ ~HoldsToken(TextOf(q), variables)

\* no value holds a $, and every $ of the text starts a token
CleanText(text) ==
    /\ \A k \in DOMAIN variables :
           \A i \in DOMAIN variables[k][2] : variables[k][2][i] # "$"
    /\ \A i \in DOMAIN text :
           text[i] = "$" => \E k \in DOMAIN variables : TokenAt(text, i, variables[k][1])

TokensReplacedIfClean(p, q) == CleanText(TextOf(p)) => TokensReplaced(p, q)

\* C3 as stated: for every mapping and every template, in the copied header
\* text and the copied cover text every $VarName is replaced by the value of
\* the variable, and no token of a known variable remains.
C3_EveryTokenReplaced ==
    CopiedHeaders(TokensReplaced) /\ CopiedCover(TokensReplaced)

\* C3, amended: this holds of the paragraphs in which every $ starts a token,
\* when no value holds a $.  The values are put in one variable after the
\* other (DocCode, DocName, Version), so a token inside a value, or one that
\* a value completes, is replaced in its turn or is left in the text.
C3_TokensReplaced ==
    CopiedHeaders(TokensReplacedIfClean) /\ CopiedCover(TokensReplacedIfClean)

\* a copied cover paragraph whose tokens are spread over several fragments,
\* one of them split between two fragments
C3_Witness ==
    /\ pc = "save"
    /\ \E k \in DOMAIN TemplateCover :
        LET p == heap[TemplateCover[k]]
        IN  /\ p.tag = "p"
            /\ Fragments(p) = << <<"$", "D", "o", "c">>, <<"C", "o", "d", "e">>, Token(Version) >>
            /\ CleanText(TextOf(p))
            /\ TextOf(heap[target_doc.body[k]]) = variables[1][2] \o variables[3][2]

\* the whole replaced text is in fragment f of the copy, the others are blank
CollapsedInto(p, q, f) ==
    /\ Len(Fragments(q)) = Len(Fragments(p))
    /\ \A k \in DOMAIN Fragments(q) :
           Fragments(q)[k] = IF k = f THEN ReplaceVariables(TextOf(p), variables, 1) ELSE <<>>

\* the first fragment of the paragraph that is not empty
FirstFilled(p) ==
    CHOOSE f \in DOMAIN Fragments(p) :
        Fragments(p)[f] # <<>> /\ \A j \in 1..(f - 1) : Fragments(p)[j] = <<>>

CollapsedIntoFirst(p, q) ==
    IF HoldsToken(TextOf(p), variables)
    THEN CollapsedInto(p, q, 1)
    ELSE Fragments(q) = Fragments(p)

CollapsedIntoFirstFilled(p, q) ==
    IF HoldsToken(TextOf(p), variables)
    THEN CollapsedInto(p, q, FirstFilled(p))
    ELSE Fragments(q) = Fragments(p)

\* C9 as stated: in a copied paragraph whose text holds a token, the first
\* text fragment holds the whole text with the tokens replaced and every
\* other fragment is blank; a paragraph without a token keeps its fragments.
C9_CollapsedIntoFirstFragment ==
    CopiedHeaders(CollapsedIntoFirst) /\ CopiedCover(CollapsedIntoFirst)

\* C9, amended: the fragment that takes the text is the first one that is
\* not empty; empty fragments before it stay empty.
C9_CollapsedIntoFirstFilledFragment ==
    CopiedHeaders(CollapsedIntoFirstFilled) /\ CopiedCover(CollapsedIntoFirstFilled)

\* a copied cover paragraph of three filled fragments with a token, collapsed
C9_Witness ==
    /\ pc = "save"
    /\ \E k \in DOMAIN TemplateCover :
        LET p == heap[TemplateCover[k]]
            q == heap[target_doc.body[k]]
        IN  /\ p.tag = "p"
            /\ Len(Fragments(p)) = 3
            /\ \A j \in 1..3 : Fragments(p)[j] # <<>>
            /\ HoldsToken(TextOf(p), variables)
            /\ Fragments(q)[1] # <<>>
            /\ Fragments(q)[2] = <<>>
            /\ Fragments(q)[3] = <<>>

\* the copied header content: the variables substituted, the tabs before the
\* label removed, as _copy_header_element leaves it
HeaderCopy(trees) ==
    [k \in DOMAIN trees |->
        remove_tab_before_label(replace_variables_in_element(trees[k], variables))]

\* C4 as stated: when _copy_headers has returned, every target section i has
\* the different-first-page flag, and its first-page header and its header of
\* the other pages hold the copy of that header of template section
\* min(i, T-1), and nothing else.  (The copy is taken as _copy_header_element
\* makes it; with the tabs before the label left in, it would be further off.)
C4_HeadersOfMatchingSection ==
    pc = "copy_footers" =>
        LET tsecs == Sections(heap, target_doc)
            msecs == Sections(heap, template_doc)
        IN  \A i \in DOMAIN tsecs :
                /\ different_first_page_header_footer(SectPr(heap, target_doc, tsecs[i]))
                /\ \A type \in {"first", "default"} :
                       Shown(heap, target_doc, tsecs, i, "headerReference", type)
                         = HeaderCopy(Shown(heap, template_doc, msecs,
                                            Min(i - 1, Len(msecs) - 1) + 1,
                                            "headerReference", type))

\* a centred paragraph of five runs: field begin, the PAGE instruction, field
\* separate, a placeholder text, field end
IsFieldChar(r, type) ==
    /\ Len(r.kids) = 1
    /\ r.kids[1].tag = "fldChar"
    /\ Get(r.kids[1], "fldCharType") = type

IsPageField(p) ==
    /\ p.tag = "p"
    /\ Len(FindAll(p, "pPr")) = 1
    /\ LET pPr == FindAll(p, "pPr")[1]
       IN  /\ Len(FindAll(pPr, "jc")) = 1
           /\ Get(FindAll(pPr, "jc")[1], "val") = "center"
    /\ LET runs == FindAll(p, "r")
       IN  /\ Len(runs) = 5
           /\ Len(p.kids) = 6
           /\ IsFieldChar(runs[1], "begin")
           /\ Len(runs[2].kids) = 1
           /\ runs[2].kids[1].tag = "instrText"
           /\ runs[2].kids[1].text = <<" ", "P", "A", "G", "E", " ">>
           /\ IsFieldChar(runs[3], "separate")
           /\ Len(runs[4].kids) = 1
           /\ runs[4].kids[1].tag = "t"
           /\ runs[4].kids[1].text # <<>>
           /\ IsFieldChar(runs[5], "end")

\* the section numbers its pages -0-, -1-, ...
NumbersInDashFromZero(sectPr) ==
    /\ HasChild(sectPr, "pgNumType")
    /\ Get(sectPr.kids[FindIdx(sectPr, "pgNumType")], "fmt") = "numberInDash"
    /\ Get(sectPr.kids[FindIdx(sectPr, "pgNumType")], "start") = "0"

FooterRebuilt(h, d, secs, i) ==
    /\ different_first_page_header_footer(SectPr(h, d, secs[i]))
    /\ NumbersInDashFromZero(SectPr(h, d, secs[i]))
    /\ Shown(h, d, secs, i, "footerReference", "first") = <<>>
    /\ LET footer == Shown(h, d, secs, i, "footerReference", "default")
       IN  Len(footer) = 1 /\ IsPageField(footer[1])

\* C5 as stated: after format(), every section of the target has the
\* different-first-page flag, numbers its pages in dashes from 0, has an empty
\* first-page footer and a footer of exactly one centred paragraph with the
\* runs field begin, PAGE instruction, field separate, placeholder, field end.
C5_EverySectionHasPageFooter ==
    pc = "save" =>
        \A i \in DOMAIN Sections(heap, target_doc) :
            FooterRebuilt(heap, target_doc, Sections(heap, target_doc), i)

\* the width of a cell, "" when it states none
CellWidth(tc) ==
    IF HasChild(tc, "tcPr") /\ HasChild(tc.kids[FindIdx(tc, "tcPr")], "tcW")
    THEN LET tcPr == tc.kids[FindIdx(tc, "tcPr")]
         IN  Get(tcPr.kids[FindIdx(tcPr, "tcW")], "w")
    ELSE ""

Columns(tbl) ==
    IF HasChild(tbl, "tblGrid")
    THEN FindAll(tbl.kids[FindIdx(tbl, "tblGrid")], "gridCol")
    ELSE <<>>

\* 45 mm and 135 mm in twentieths of a point, on every row, on the grid and
\* on the table, whose layout is fixed
HasCoverWidths(tbl) ==
    /\ \A r \in DOMAIN FindAll(tbl, "tr") :
        LET tcs == FindAll(FindAll(tbl, "tr")[r], "tc")
        IN  /\ Len(tcs) >= 1 => CellWidth(tcs[1]) = "2551"
            /\ Len(tcs) >= 2 => CellWidth(tcs[2]) = "7654"
    /\ Get(Columns(tbl)[1], "w") = "2551"
    /\ Get(Columns(tbl)[2], "w") = "7654"
    /\ HasChild(tbl, "tblPr")
    /\ LET tblPr == tbl.kids[FindIdx(tbl, "tblPr")]
       IN  /\ HasChild(tblPr, "tblW")
           /\ Get(tblPr.kids[FindIdx(tblPr, "tblW")], "w") = "10205"
           /\ HasChild(tblPr, "tblLayout")
           /\ Get(tblPr.kids[FindIdx(tblPr, "tblLayout")], "type") = "fixed"

\* C7: when the first table of the template's cover has two or more columns,
\* its copy in the output has the widths 2551 and 7654 on the first two cells
\* of every row and on the first two grid columns, the table width 10205 and
\* the fixed layout; every other copied table is the substituted copy.
C7_CoverTableWidths ==
    pc = "save" =>
        LET cover == TemplateCover
            f == FirstTable(heap, cover)
        IN  /\ (f # 0 /\ Len(Columns(heap[cover[f]])) >= 2)
                   => HasCoverWidths(heap[target_doc.body[f]])
            /\ \A k \in DOMAIN cover :
                   (heap[cover[k]].tag = "tbl" /\ k # f)
                       => heap[target_doc.body[k]]
                            = replace_variables_in_element(heap[cover[k]], variables)

\* the cover holds a table of two columns with a row of one cell, and
\* another table after it
C7_Witness ==
    /\ pc = "save"
    /\ LET cover == TemplateCover
           f == FirstTable(heap, cover)
       IN  /\ f # 0
           /\ Len(Columns(heap[cover[f]])) = 2
           /\ \E r \in DOMAIN FindAll(heap[cover[f]], "tr") :
                  Len(FindAll(FindAll(heap[cover[f]], "tr")[r], "tc")) = 1
           /\ \E k \in DOMAIN cover : k > f /\ heap[cover[k]].tag = "tbl"
           /\ HasCoverWidths(heap[target_doc.body[f]])

\* the elements a loaded document holds
ElementsOf(d) ==
    {d.body[i] : i \in DOMAIN d.body}
        \cup UNION {{d.parts[k][i] : i \in DOMAIN d.parts[k]} : k \in DOMAIN d.parts}

\* the parts the template file holds are as they were loaded
TemplateHeadersKept ==
    \A k \in DOMAIN template_file.parts :
        Deref(heap, template_doc.parts[k]) = template_file.parts[k]

\* no element of the target is an element of the template
NoSharedElement ==
    source # 0 => ElementsOf(target_doc) \cap ElementsOf(template_doc) = {}

\* formatting the same source twice gave the same document
SameSourceSameOutput ==
    \A i, j \in DOMAIN outputs :
        outputs[i].source = outputs[j].source => outputs[i].doc = outputs[j].doc

\* the tree without the references to parts the file does not hold
RECURSIVE WithoutNewReferences(_)
WithoutNewReferences(e) ==
    [e EXCEPT !.kids =
        LET kept == SelectSeq(@, LAMBDA k :
                        ~(/\ k.tag \in {"headerReference", "footerReference"}
                          /\ \A n \in DOMAIN template_file.parts : RId(n) # Get(k, "id")))
        IN  [i \in DOMAIN kept |-> WithoutNewReferences(kept[i])]]

\* C10 as stated: over any sequence of format() calls the template's header
\* and cover content is never modified, no element of a target is an element
\* of the template, and the same source gives the same output every time.
C10_TemplateNeverModified ==
    /\ TemplateHeadersKept
    /\ Deref(heap, TemplateCover)
         = SubSeq(template_file.body, 1, CoverLength(template_file.body))
    /\ NoSharedElement
    /\ SameSourceSameOutput

\* C10, amended: the template's headers and cover keep their content but for
\* one thing: reading a header that the template's first section does not
\* define creates an empty one, and the reference to it is added to the
\* section properties, which lie inside the cover when that section ends
\* there.
C10_NoAliasing ==
    /\ TemplateHeadersKept
    /\ LET cover == Deref(heap, TemplateCover)
       IN  [k \in DOMAIN cover |-> WithoutNewReferences(cover[k])]
             = SubSeq(template_file.body, 1, CoverLength(template_file.body))
    /\ NoSharedElement
    /\ SameSourceSameOutput

\* the same source was formatted twice; headers and a cover with tokens, with
\* the label and with a table were copied both times
C10_Witness ==
    /\ Len(outputs) = 2
    /\ outputs[1].source = outputs[2].source
    /\ FirstTable(heap, TemplateCover) # 0
    /\ \E k \in DOMAIN template_file.parts :
           ParagraphsOf(template_file.parts[k], 1) # <<>>
             /\ HoldsToken(TextOf(ParagraphsOf(template_file.parts[k], 1)[1]), variables)

====
